---- MODULE Spec2Model ----
(***************************************************************************)
(* Model of the iRangeGraph benchmarking harness: the dataset codecs of    *)
(* fanns_survey_helpers.cpp, the thread-count sampler, and the two main    *)
(* programs (index construction and search_wrapper.cpp).                   *)
(*                                                                         *)
(* Text is modelled as sequences of one-character strings; binary files    *)
(* as sequences of 32-bit words followed by 0..3 stray bytes.              *)
(***************************************************************************)
EXTENDS Integers, Sequences, FiniteSets, TLC

VARIABLES
    \* ---- read_two_ints_per_line applied to a file (SpecLines)
    range_file, range_out,
    \* ---- read_fvecs / read_ivecs applied to a file (SpecCodec)
    vec_recs, vec_rest, vec_out,
    \* ---- the two programs and the sampler thread (Spec, FairSpec)
    program, pc, fault,
    paths, M, ef_construction, ef_search, threads,
    done, monitor, current, peak_threads,
    storage_query_nb, query_ranges, groundtruth, sorted_to_original,
    i, total_true_positives, total_queries_processed, recall,
    samples, done_writes, peak_writers, reported_peak, late_peak_write,
    events, gt_opened, search_log

lines_vars == <<range_file, range_out>>
codec_vars == <<vec_recs, vec_rest, vec_out>>
config_vars == <<paths, M, ef_construction, ef_search, threads>>
sampler_vars == <<monitor, current, peak_threads, samples, peak_writers, late_peak_write>>
search_vars == <<storage_query_nb, query_ranges, groundtruth, sorted_to_original,
                 i, total_true_positives, total_queries_processed, recall,
                 gt_opened, search_log>>
main_vars == <<program, pc, fault, done, done_writes, reported_peak, events>>
program_vars == <<config_vars, sampler_vars, search_vars, main_vars>>
vars == <<lines_vars, codec_vars, program_vars>>

\* ------------------------------------------------------------------ bounds

\* longest enumerated text line, in characters
MaxLineLen == 4
\* most lines in an enumerated range file
MaxLines == 2
\* largest dimension of a complete record in an enumerated binary file
MaxDim == 2
\* most complete records in an enumerated binary file
MaxRecords == 2
\* most whole words after the complete records of an enumerated binary file
MaxRestWords == 2
\* largest thread count /proc/self/status reports
MaxThreads == 2
\* most queries LoadQuery loads
MaxQueries == 2

\* ------------------------------------------------------------- constants

INT_MAX == 2147483647
query_K == 10

\* ------------------------------------------------------------------ text

Digits == {"0", "1", "2", "3", "4", "5", "6", "7", "8", "9"}

DigitVal(c) ==
    CASE c = "0" -> 0 [] c = "1" -> 1 [] c = "2" -> 2 [] c = "3" -> 3
      [] c = "4" -> 4 [] c = "5" -> 5 [] c = "6" -> 6 [] c = "7" -> 7
      [] c = "8" -> 8 [] c = "9" -> 9

\* std::isspace in the "C" locale (\v has no TLA+ escape and is left out)
IsSpace(c) == c \in {" ", "\t", "\n", "\f", "\r"}

RECURSIVE SkipSpace(_)
SkipSpace(s) ==
    IF s # <<>> /\ IsSpace(Head(s)) THEN SkipSpace(Tail(s)) ELSE s

RECURSIVE DigitPrefix(_)
DigitPrefix(s) ==
    IF s # <<>> /\ Head(s) \in Digits
    THEN <<Head(s)>> \o DigitPrefix(Tail(s))
    ELSE <<>>

\* magnitude of a digit string, or -1 once it exceeds INT_MAX
RECURSIVE Magnitude(_, _)
Magnitude(ds, acc) ==
    IF ds = <<>> THEN acc
    ELSE IF acc > (INT_MAX - DigitVal(Head(ds))) \div 10 THEN -1
    ELSE Magnitude(Tail(ds), acc * 10 + DigitVal(Head(ds)))

\* std::stoi(str): strtol semantics with base 10. Leading white space is
\* skipped, one sign is accepted, the longest digit prefix is converted and
\* whatever follows it is ignored. No digit: std::invalid_argument; out of
\* the range of int: std::out_of_range (INT_MIN itself is treated as out of
\* range here). ok = FALSE stands for either exception.
stoi(str) ==
    LET s1 == SkipSpace(str)
        signed == s1 # <<>> /\ Head(s1) \in {"+", "-"}
        neg == s1 # <<>> /\ Head(s1) = "-"
        s2 == IF signed THEN Tail(s1) ELSE s1
        ds == DigitPrefix(s2)
        mag == Magnitude(ds, 0)
    IN  IF ds = <<>> \/ mag = -1
        THEN [ok |-> FALSE, value |-> 0]
        ELSE [ok |-> TRUE, value |-> IF neg THEN 0 - mag ELSE mag]

\* a std::stringstream over a line: the unread characters and the state bits
stringstream(line) == [rest |-> line, eof |-> FALSE, fail |-> FALSE]

RECURSIVE IndexOf(_, _, _)
IndexOf(s, c, k) ==
    IF k > Len(s) THEN 0
    ELSE IF s[k] = c THEN k
    ELSE IndexOf(s, c, k + 1)

\* std::getline(ss, str, delim): on a stream that is not good() it sets
\* failbit; otherwise it extracts up to and including delim (the delimiter
\* is dropped), sets eofbit when the end is reached first, and sets failbit
\* when nothing at all was extracted.
getline(ss, delim) ==
    IF ss.eof \/ ss.fail
    THEN [str |-> <<>>, ss |-> [ss EXCEPT !.fail = TRUE]]
    ELSE LET k == IndexOf(ss.rest, delim, 1)
         IN  IF k > 0
             THEN [str |-> SubSeq(ss.rest, 1, k - 1),
                   ss |-> [ss EXCEPT !.rest = SubSeq(ss.rest, k + 1, Len(ss.rest))]]
             ELSE [str |-> ss.rest,
                   ss |-> [rest |-> <<>>, eof |-> TRUE, fail |-> ss.rest = <<>>]]

\* the body of the loop of read_two_ints_per_line for one line
two_ints_of_line(line) ==
    LET g1 == getline(stringstream(line), "-")
        g2 == getline(g1.ss, "\n")
        a == stoi(g1.str)
        b == stoi(g2.str)
    IN  IF g1.ss.fail \/ g2.ss.fail \/ ~g2.ss.eof
        THEN [fault |-> "Invalid format", pair |-> <<0, 0>>]
        ELSE IF ~a.ok \/ ~b.ok
        THEN [fault |-> "Invalid integer value", pair |-> <<0, 0>>]
        ELSE [fault |-> "none", pair |-> <<a.value, b.value>>]

RECURSIVE two_ints_loop(_, _, _)
two_ints_loop(lines, line_number, result) ==
    IF lines = <<>>
    THEN [fault |-> "none", line |-> 0, result |-> result]
    ELSE LET r == two_ints_of_line(Head(lines))
         IN  IF r.fault # "none"
             THEN [fault |-> r.fault, line |-> line_number + 1, result |-> <<>>]
             ELSE two_ints_loop(Tail(lines), line_number + 1, Append(result, r.pair))

\* read_two_ints_per_line(filename); file.lines is what the outer
\* std::getline yields, one entry per line of the file
read_two_ints_per_line(file) ==
    IF ~file.open
    THEN [fault |-> "Error opening file", line |-> 0, result |-> <<>>]
    ELSE two_ints_loop(file.lines, 0, <<>>)

\* ---------------------------------------------------------------- binary

\* A binary file: whether it can be opened, its whole 32-bit words in file
\* order, and the 0..3 stray bytes after the last whole word.
BytesLeft(words, tail) == 4 * Len(words) + tail

\* std::vector<T> vec(d) with a 4-byte T: the int d is converted to size_t,
\* so a negative d becomes a count above max_size() and the constructor
\* throws (std::length_error).
ExceedsMaxSize(d) == d < 0

\* the loop of read_ivecs that also keeps the vector of a short payload read
RECURSIVE ivecs_loop_keep_partial(_, _, _)
ivecs_loop_keep_partial(words, tail, dataset) ==
    IF BytesLeft(words, tail) < 4
    THEN [fault |-> "none", dataset |-> dataset]
    ELSE LET d == Head(words)
             rest == Tail(words)
         IN  IF ExceedsMaxSize(d)
             THEN [fault |-> "length_error", dataset |-> <<>>]
             ELSE IF BytesLeft(rest, tail) < 4 * d
             THEN [fault |-> "none",
                   dataset |-> Append(dataset, rest \o [k \in 1..(d - Len(rest)) |-> 0])]
             ELSE ivecs_loop_keep_partial(SubSeq(rest, d + 1, Len(rest)), tail,
                                          Append(dataset, SubSeq(rest, 1, d)))

\* while (file) { read d; vec(d); read d elements; push_back } of read_fvecs.
\* A float element is held as its 32-bit pattern: read() copies bytes.
RECURSIVE fvecs_loop(_, _, _)
fvecs_loop(words, tail, dataset) ==
    IF BytesLeft(words, tail) < 4
    THEN [fault |-> "none", dataset |-> dataset]
    ELSE LET d == Head(words)
             rest == Tail(words)
         IN  IF ExceedsMaxSize(d)
             THEN [fault |-> "length_error", dataset |-> <<>>]
             ELSE IF BytesLeft(rest, tail) < 4 * d
             THEN [fault |-> "none", dataset |-> dataset]
             ELSE fvecs_loop(SubSeq(rest, d + 1, Len(rest)), tail,
                             Append(dataset, SubSeq(rest, 1, d)))

\* the same loop of read_ivecs
RECURSIVE ivecs_loop(_, _, _)
ivecs_loop(words, tail, dataset) ==
    IF BytesLeft(words, tail) < 4
    THEN [fault |-> "none", dataset |-> dataset]
    ELSE LET d == Head(words)
             rest == Tail(words)
         IN  IF ExceedsMaxSize(d)
             THEN [fault |-> "length_error", dataset |-> <<>>]
             ELSE IF BytesLeft(rest, tail) < 4 * d
             THEN [fault |-> "none", dataset |-> dataset]
             ELSE ivecs_loop(SubSeq(rest, d + 1, Len(rest)), tail,
                             Append(dataset, SubSeq(rest, 1, d)))

\* read_fvecs(filename): an unopenable file is reported on std::cerr and
\* yields an empty dataset
read_fvecs(file) ==
    IF ~file.open
    THEN [fault |-> "none", dataset |-> <<>>, cerr |-> TRUE]
    ELSE [cerr |-> FALSE] @@ fvecs_loop(file.words, file.tail, <<>>)

\* read_ivecs raising on a file that cannot be opened, as the line parsers do
read_ivecs_throws_on_open(file) ==
    IF ~file.open
    THEN [fault |-> "Error opening file", dataset |-> <<>>, cerr |-> FALSE]
    ELSE [cerr |-> FALSE] @@ ivecs_loop(file.words, file.tail, <<>>)

\* read_ivecs(filename)
read_ivecs(file) ==
    IF ~file.open
    THEN [fault |-> "none", dataset |-> <<>>, cerr |-> TRUE]
    ELSE [cerr |-> FALSE] @@ ivecs_loop(file.words, file.tail, <<>>)

\* the byte layout [int32 dim][dim elements] of a sequence of records
RECURSIVE EncodeRecords(_)
EncodeRecords(recs) ==
    IF recs = <<>> THEN <<>>
    ELSE <<Len(Head(recs))>> \o Head(recs) \o EncodeRecords(Tail(recs))

\* --------------------------------------------------- sets of sequences

\* all sequences over S of length 0..n
RECURSIVE SeqsUpTo(_, _)
SeqsUpTo(S, n) ==
    IF n = 0 THEN {<<>>}
    ELSE LET shorter == SeqsUpTo(S, n - 1)
         IN  shorter \cup {Append(s, x) : s \in {t \in shorter : Len(t) = n - 1}, x \in S}

\* ------------------------------------------------- idle parts of the state

\* the result slots before the function under test has been called
PendingLines == [fault |-> "pending", line |-> 0, result |-> <<>>]
PendingVecs == [fault |-> "pending", dataset |-> <<>>, cerr |-> FALSE]
NoFile == [open |-> FALSE, lines |-> <<>>]
NoVecFile == [open |-> FALSE, words |-> <<>>, tail |-> 0]

PathKeys == {"data_vector", "index_save", "query_vector", "query_ranges",
             "groundtruth", "index"}

LinesIdle == range_file = NoFile /\ range_out = PendingLines

CodecIdle ==
    /\ vec_recs = <<>> /\ vec_rest = NoVecFile
    /\ vec_out = [fvecs |-> PendingVecs, ivecs |-> PendingVecs]

\* the globals and locals of a program before main runs: zero-initialised
\* globals, an empty paths map (a missing key reads as ""), peak_threads(1)
ProgramStart ==
    /\ fault = "none"
    /\ paths = [k \in PathKeys |-> <<>>]
    /\ M = 0 /\ ef_construction = 0 /\ ef_search = 0 /\ threads = 0
    /\ done = FALSE /\ monitor = "unstarted" /\ current = 0 /\ peak_threads = 1
    /\ storage_query_nb = 0 /\ query_ranges = <<>> /\ groundtruth = <<>>
    /\ sorted_to_original = <<>>
    /\ i = 0 /\ total_true_positives = 0 /\ total_queries_processed = 0
    /\ recall = {}
    /\ samples = {} /\ done_writes = <<>> /\ peak_writers = {}
    /\ reported_peak = {} /\ late_peak_write = FALSE
    /\ events = {} /\ gt_opened = "unread" /\ search_log = <<>>

ProgramIdle == program = "none" /\ pc = "off" /\ ProgramStart

\* ------------------------------------- read_two_ints_per_line on its own

LineChars == {"5", "-", "x", " "}

Line_5_10 == <<"5", "-", "1", "0">>
Line_5_10_2 == <<"5", "-", "1", "0", "-", "2">>

RangeLines == SeqsUpTo(LineChars, MaxLineLen) \cup {Line_5_10, Line_5_10_2}

RangeFiles ==
    {NoFile}
        \cup {[open |-> TRUE, lines |-> ls] : ls \in SeqsUpTo(RangeLines, MaxLines)}

InitLines ==
    /\ range_file \in RangeFiles
    /\ range_out = PendingLines
    /\ CodecIdle /\ ProgramIdle

CallReadTwoInts ==
    /\ range_out = PendingLines
    /\ range_out' = read_two_ints_per_line(range_file)
    /\ UNCHANGED <<range_file, codec_vars, program_vars>>

NextLines == CallReadTwoInts

SpecLines == InitLines /\ [][NextLines]_vars

\* ------------------------------------------ read_fvecs / read_ivecs alone

ElemVals == {-1, 2}
WordVals == {-1, 0, 2}

Records == UNION {[1..d -> ElemVals] : d \in 0..MaxDim}

\* the file read: the complete records vec_recs followed by vec_rest
VecFile ==
    [open |-> vec_rest.open,
     words |-> EncodeRecords(vec_recs) \o vec_rest.words,
     tail |-> vec_rest.tail]

InitCodec ==
    /\ vec_recs \in SeqsUpTo(Records, MaxRecords)
    /\ vec_rest \in
         {[open |-> TRUE, words |-> ws, tail |-> t] :
              ws \in SeqsUpTo(WordVals, MaxRestWords), t \in 0..3}
            \cup {NoVecFile}
    /\ vec_out = [fvecs |-> PendingVecs, ivecs |-> PendingVecs]
    /\ LinesIdle /\ ProgramIdle

CallReadVecs ==
    /\ vec_out.fvecs = PendingVecs
    /\ vec_out' = [fvecs |-> read_fvecs(VecFile), ivecs |-> read_ivecs(VecFile)]
    /\ UNCHANGED <<vec_recs, vec_rest, lines_vars, program_vars>>

NextCodec == CallReadVecs

SpecCodec == InitCodec /\ [][NextCodec]_vars

\* ------------------------------------------------------ the two programs

\* Command-line values are text. A flag that is not given leaves its global
\* as it was. Every flag given is followed by its value.
Absent == <<"(absent)">>
PathArgs == {<<>>, <<"f">>}
IntArgs == {<<"-", "1">>, <<"0">>, <<"1">>, <<"x">>}

\* paths keys each program sets (--data_path, --index_file, --query_path,
\* --query_ranges_file, --groundtruth_file) and the numeric flags it parses
PathKeysOf(prog) ==
    IF prog = "build"
    THEN {"data_vector", "index_save"}
    ELSE {"data_vector", "query_vector", "query_ranges", "groundtruth", "index"}

IntFlagsOf(prog) ==
    IF prog = "build" THEN {"M", "ef_construction", "threads"} ELSE {"M", "ef_search"}

IntArg(ia, flag, old) ==
    IF flag \in DOMAIN ia /\ ia[flag] # Absent THEN stoi(ia[flag]).value ELSE old

\* the checks at the top of main of the build program, in order
build_config_fault_no_threads(p, m, efc, t) ==
    IF p["data_vector"] = <<>> THEN "data path is empty"
    ELSE IF p["index_save"] = <<>> THEN "index path is empty"
    ELSE IF m <= 0 THEN "M should be a positive integer"
    ELSE IF efc <= 0 THEN "ef_construction should be a positive integer"
    ELSE "none"

build_config_fault(p, m, efc, t) ==
    IF p["data_vector"] = <<>> THEN "data path is empty"
    ELSE IF p["index_save"] = <<>> THEN "index path is empty"
    ELSE IF m <= 0 THEN "M should be a positive integer"
    ELSE IF efc <= 0 THEN "ef_construction should be a positive integer"
    ELSE IF t <= 0 THEN "threads should be a positive integer"
    ELSE "none"

\* the checks at the top of main of the search program, in order
search_config_fault(p, m, efs) ==
    IF p["data_vector"] = <<>> THEN "data path is empty"
    ELSE IF p["query_vector"] = <<>> THEN "query path is empty"
    ELSE IF p["query_ranges"] = <<>> THEN "query ranges file is empty"
    ELSE IF p["groundtruth"] = <<>> THEN "groundtruth file is empty"
    ELSE IF p["index"] = <<>> THEN "index path is empty"
    ELSE IF m <= 0 THEN "M should be a positive integer"
    ELSE IF efs <= 0 THEN "ef_search should be a positive integer"
    ELSE "none"

RangesMismatch == "Number of query ranges does not match number of queries"
GroundtruthMismatch == "Number of groundtruth entries does not match number of queries"
MappingFault == "Unable to open mapping file"

\* an uncaught exception leaves main: std::terminate ends the process,
\* the sampler thread with it
Throw(msg) == pc' = "terminated" /\ fault' = msg

Alive == pc \notin {"off", "terminated", "returned"}

Init ==
    /\ program \in {"build", "search"}
    /\ pc = "parse"
    /\ ProgramStart
    /\ LinesIdle /\ CodecIdle

\* for (i < argc) { if (arg == "--flag") global = argv[i + 1] or stoi(...) }
ParseArgs ==
    /\ pc = "parse"
    /\ \E pa \in [PathKeysOf(program) -> PathArgs \cup {Absent}],
          ia \in [IntFlagsOf(program) -> IntArgs \cup {Absent}] :
         IF \E f \in DOMAIN ia : ia[f] # Absent /\ ~stoi(ia[f]).ok
         THEN /\ Throw("invalid_argument")
              /\ UNCHANGED config_vars
         ELSE /\ paths' = [k \in PathKeys |->
                             IF k \in DOMAIN pa /\ pa[k] # Absent THEN pa[k] ELSE paths[k]]
              /\ M' = IntArg(ia, "M", M)
              /\ ef_construction' = IntArg(ia, "ef_construction", ef_construction)
              /\ ef_search' = IntArg(ia, "ef_search", ef_search)
              /\ threads' = IntArg(ia, "threads", threads)
              /\ pc' = "validate"
              /\ UNCHANGED fault
    /\ UNCHANGED <<program, done, done_writes, reported_peak, events>>
    /\ UNCHANGED <<sampler_vars, search_vars, lines_vars, codec_vars>>

\* if (paths[...] == "") throw ...; if (M <= 0) throw ...; ...
Validate ==
    /\ pc = "validate"
    /\ LET f == IF program = "build"
                THEN build_config_fault(paths, M, ef_construction, threads)
                ELSE search_config_fault(paths, M, ef_search)
       IN  IF f # "none" THEN Throw(f) ELSE pc' = "start_monitor" /\ UNCHANGED fault
    /\ UNCHANGED <<program, done, done_writes, reported_peak, events>>
    /\ UNCHANGED <<config_vars, sampler_vars, search_vars, lines_vars, codec_vars>>

\* std::atomic<bool> done(false); std::thread monitor(monitor_thread_count, std::ref(done));
StartMonitor ==
    /\ pc = "start_monitor"
    /\ done' = FALSE
    /\ monitor' = "test"
    /\ events' = events \cup {"thread:monitor"}
    /\ pc' = IF program = "build" THEN "load_data" ELSE "load_query"
    /\ UNCHANGED <<program, fault, done_writes, reported_peak>>
    /\ UNCHANGED <<current, peak_threads, samples, peak_writers, late_peak_write>>
    /\ UNCHANGED <<config_vars, search_vars, lines_vars, codec_vars>>

\* ---- build program

\* storage.LoadData(paths["data_vector"]);
LoadData ==
    /\ pc = "load_data"
    /\ events' = events \cup {"read:data_vector", "engine:LoadData"}
    /\ pc' = "buildandsave"
    /\ UNCHANGED <<program, fault, done, done_writes, reported_peak>>
    /\ UNCHANGED <<config_vars, sampler_vars, search_vars, lines_vars, codec_vars>>

\* iRangeGraph_Build index(&storage, M, ef_construction); index.buildandsave(...)
BuildAndSave ==
    /\ pc = "buildandsave"
    /\ events' = events \cup {"engine:iRangeGraph_Build", "engine:buildandsave"}
    /\ pc' = "set_done"
    /\ UNCHANGED <<program, fault, done, done_writes, reported_peak>>
    /\ UNCHANGED <<config_vars, sampler_vars, search_vars, lines_vars, codec_vars>>

\* ---- search program

\* the files a run may find behind --query_ranges_file: unopenable, a
\* malformed line, or n well-formed "5-10" lines
QueryRangeFiles ==
    {NoFile, [open |-> TRUE, lines |-> <<Line_5_10, <<"x">>>>]}
        \cup {[open |-> TRUE, lines |-> [k \in 1..n |-> Line_5_10]] : n \in 0..MaxQueries}

\* the files a run may find behind --groundtruth_file: unopenable, a
\* record with a negative dimension, or n rows of original-space IDs
GroundtruthRows == {<<2, 0>>, <<2, 2>>}

GroundtruthFiles ==
    {NoVecFile, [open |-> TRUE, words |-> <<-1>>, tail |-> 0]}
        \cup {[open |-> TRUE, words |-> EncodeRecords(rows), tail |-> 0] :
                  rows \in SeqsUpTo(GroundtruthRows, MaxQueries)}

\* the tables a run may find in <data_path>.mapping, indexed by sorted ID
Mappings == {(0 :> 2) @@ (1 :> 0) @@ (2 :> 1), (0 :> 0) @@ (1 :> 1) @@ (2 :> 2)}

\* the sorted IDs TopDown_nodeentries_search may leave in its result heap
SearchResults == {{}, {0}, {0, 1}}

\* storage.query_K = query_K; storage.LoadQuery(paths["query_vector"]);
LoadQuery ==
    /\ pc = "load_query"
    /\ \E n \in 0..MaxQueries : storage_query_nb' = n
    /\ events' = events \cup {"read:query_vector", "engine:LoadQuery"}
    /\ pc' = "load_ranges"
    /\ UNCHANGED <<program, fault, done, done_writes, reported_peak>>
    /\ UNCHANGED <<query_ranges, groundtruth, sorted_to_original, i,
                   total_true_positives, total_queries_processed, recall,
                   gt_opened, search_log>>
    /\ UNCHANGED <<config_vars, sampler_vars, lines_vars, codec_vars>>

\* query_ranges = read_two_ints_per_line(paths["query_ranges"]);
LoadRanges ==
    /\ pc = "load_ranges"
    /\ \E file \in QueryRangeFiles :
         LET r == read_two_ints_per_line(file)
         IN  IF r.fault # "none"
             THEN Throw(r.fault) /\ UNCHANGED query_ranges
             ELSE query_ranges' = r.result /\ pc' = "load_groundtruth" /\ UNCHANGED fault
    /\ events' = events \cup {"read:query_ranges"}
    /\ UNCHANGED <<program, done, done_writes, reported_peak>>
    /\ UNCHANGED <<storage_query_nb, groundtruth, sorted_to_original, i,
                   total_true_positives, total_queries_processed, recall,
                   gt_opened, search_log>>
    /\ UNCHANGED <<config_vars, sampler_vars, lines_vars, codec_vars>>

\* groundtruth = read_ivecs(paths["groundtruth"]);
LoadGroundtruth ==
    /\ pc = "load_groundtruth"
    /\ \E file \in GroundtruthFiles :
         LET r == read_ivecs(file)
         IN  /\ gt_opened' = IF file.open THEN "opened" ELSE "failed"
             /\ IF r.fault # "none"
                THEN Throw(r.fault) /\ UNCHANGED groundtruth
                ELSE groundtruth' = r.dataset /\ pc' = "check_counts" /\ UNCHANGED fault
    /\ events' = events \cup {"read:groundtruth"}
    /\ UNCHANGED <<program, done, done_writes, reported_peak>>
    /\ UNCHANGED <<storage_query_nb, query_ranges, sorted_to_original, i,
                   total_true_positives, total_queries_processed, recall, search_log>>
    /\ UNCHANGED <<config_vars, sampler_vars, lines_vars, codec_vars>>

\* the two size checks, with the groundtruth check left out
CheckCountsRangesOnly ==
    /\ pc = "check_counts"
    /\ IF Len(query_ranges) # storage_query_nb
       THEN Throw(RangesMismatch)
       ELSE pc' = "load_mapping" /\ UNCHANGED fault
    /\ UNCHANGED <<program, done, done_writes, reported_peak, events>>
    /\ UNCHANGED <<config_vars, sampler_vars, search_vars, lines_vars, codec_vars>>

\* if (query_ranges.size() != storage.query_nb) throw ...;
\* if (groundtruth.size() != storage.query_nb) throw ...;
CheckCounts ==
    /\ pc = "check_counts"
    /\ IF Len(query_ranges) # storage_query_nb
       THEN Throw(RangesMismatch)
       ELSE IF Len(groundtruth) # storage_query_nb
       THEN Throw(GroundtruthMismatch)
       ELSE pc' = "load_mapping" /\ UNCHANGED fault
    /\ UNCHANGED <<program, done, done_writes, reported_peak, events>>
    /\ UNCHANGED <<config_vars, sampler_vars, search_vars, lines_vars, codec_vars>>

\* std::ifstream mapping_in(mapping_file); if (!mapping_in) throw ...;
\* read num_points, then sorted_to_original
LoadMapping ==
    /\ pc = "load_mapping"
    /\ \/ Throw(MappingFault) /\ UNCHANGED <<sorted_to_original, events>>
       \/ /\ \E m \in Mappings : sorted_to_original' = m
          /\ events' = events \cup {"read:mapping"}
          /\ pc' = "load_index"
          /\ UNCHANGED fault
    /\ UNCHANGED <<program, done, done_writes, reported_peak>>
    /\ UNCHANGED <<storage_query_nb, query_ranges, groundtruth, i,
                   total_true_positives, total_queries_processed, recall,
                   gt_opened, search_log>>
    /\ UNCHANGED <<config_vars, sampler_vars, lines_vars, codec_vars>>

\* iRangeGraph_Search<float> index(paths["data_vector"], paths["index"], &storage, M);
\* int total_true_positives = 0; int total_queries_processed = 0; int i = 0
LoadIndex ==
    /\ pc = "load_index"
    /\ events' = events \cup {"read:index", "engine:iRangeGraph_Search"}
    /\ total_true_positives' = 0
    /\ total_queries_processed' = 0
    /\ i' = 0
    /\ pc' = "loop"
    /\ UNCHANGED <<program, fault, done, done_writes, reported_peak>>
    /\ UNCHANGED <<storage_query_nb, query_ranges, groundtruth, sorted_to_original,
                   recall, gt_opened, search_log>>
    /\ UNCHANGED <<config_vars, sampler_vars, lines_vars, codec_vars>>

\* the result set left untranslated, in sorted ID space
result_set_untranslated(res, mapping) == res

\* while (!res.empty()) { result_set_original.insert(sorted_to_original[res.top().second]); res.pop(); }
result_set_original(res, mapping) == {mapping[sorted_id] : sorted_id \in res}

\* for (int gt_id : groundtruth[i]) if (result_set_original.count(gt_id)) total_true_positives++;
RECURSIVE true_positives(_, _)
true_positives(gt_row, result_set) ==
    IF gt_row = <<>> THEN 0
    ELSE (IF Head(gt_row) \in result_set THEN 1 ELSE 0)
             + true_positives(Tail(gt_row), result_set)

\* one iteration of for (int i = 0; i < storage.query_nb; i++): range_filter,
\* TopDown_nodeentries_search, the drain of the heap and the count
SearchQuery ==
    /\ pc = "loop"
    /\ i < storage_query_nb
    /\ \E res \in SearchResults :
         /\ total_true_positives' = total_true_positives
               + true_positives(groundtruth[i + 1],
                                result_set_original(res, sorted_to_original))
         /\ search_log' = Append(search_log,
                                 [query |-> i, range |-> query_ranges[i + 1], res |-> res])
    /\ events' = events \cup {"engine:range_filter", "engine:TopDown_nodeentries_search"}
    /\ total_queries_processed' = total_queries_processed + 1
    /\ i' = i + 1
    /\ UNCHANGED <<program, pc, fault, done, done_writes, reported_peak>>
    /\ UNCHANGED <<storage_query_nb, query_ranges, groundtruth, sorted_to_original,
                   recall, gt_opened>>
    /\ UNCHANGED <<config_vars, sampler_vars, lines_vars, codec_vars>>

\* i < storage.query_nb is false: the loop is left
LoopExit ==
    /\ pc = "loop"
    /\ ~(i < storage_query_nb)
    /\ pc' = "set_done"
    /\ UNCHANGED <<program, fault, done, done_writes, reported_peak, events>>
    /\ UNCHANGED <<config_vars, sampler_vars, search_vars, lines_vars, codec_vars>>

\* ---- the end of both programs

\* done = true;
SetDone ==
    /\ pc = "set_done"
    /\ done' = TRUE
    /\ done_writes' = Append(done_writes, "main")
    /\ pc' = "join"
    /\ UNCHANGED <<program, fault, reported_peak, events>>
    /\ UNCHANGED <<config_vars, sampler_vars, search_vars, lines_vars, codec_vars>>

\* a join that returns while the sampler still runs
JoinNoWait ==
    /\ pc = "join"
    /\ pc' = IF program = "build" THEN "report" ELSE "metrics"
    /\ UNCHANGED <<program, fault, done, done_writes, reported_peak, events>>
    /\ UNCHANGED <<config_vars, sampler_vars, search_vars, lines_vars, codec_vars>>

\* monitor.join(); returns once monitor_thread_count has returned
Join ==
    /\ pc = "join"
    /\ monitor = "exited"
    /\ pc' = IF program = "build" THEN "report" ELSE "metrics"
    /\ UNCHANGED <<program, fault, done, done_writes, reported_peak, events>>
    /\ UNCHANGED <<config_vars, sampler_vars, search_vars, lines_vars, codec_vars>>

\* float recall = (float)total_true_positives / (total_queries_processed * query_K);
\* held as <<numerator, denominator>>
ComputeMetrics ==
    /\ pc = "metrics"
    /\ recall' = {<<total_true_positives, total_queries_processed * query_K>>}
    /\ pc' = "report"
    /\ UNCHANGED <<program, fault, done, done_writes, reported_peak, events>>
    /\ UNCHANGED <<storage_query_nb, query_ranges, groundtruth, sorted_to_original, i,
                   total_true_positives, total_queries_processed, gt_opened, search_log>>
    /\ UNCHANGED <<config_vars, sampler_vars, lines_vars, codec_vars>>

\* std::cout << "Peak thread count: " << peak_threads.load() << std::endl;
Report ==
    /\ pc = "report"
    /\ reported_peak' = {peak_threads}
    /\ pc' = "memory"
    /\ UNCHANGED <<program, fault, done, done_writes, events>>
    /\ UNCHANGED <<config_vars, sampler_vars, search_vars, lines_vars, codec_vars>>

\* peak_memory_footprint(); return 0;
PeakMemoryFootprint ==
    /\ pc = "memory"
    /\ events' = events \cup {"read:/proc/status"}
    /\ pc' = "returned"
    /\ UNCHANGED <<program, fault, done, done_writes, reported_peak>>
    /\ UNCHANGED <<config_vars, sampler_vars, search_vars, lines_vars, codec_vars>>

\* ---- the sampler thread: monitor_thread_count(done)

\* what get_thread_count() may return: the count on the "Threads:" line of
\* /proc/self/status, or -1 when there is no such line
ThreadSamples == {-1} \cup 1..MaxThreads

\* a loop test that ignores the flag
S_TestIgnoresFlag ==
    /\ Alive /\ monitor = "test"
    /\ monitor' = "sample"
    /\ UNCHANGED <<current, peak_threads, samples, peak_writers, late_peak_write>>
    /\ UNCHANGED <<config_vars, search_vars, main_vars, lines_vars, codec_vars>>

\* while (!done_flag)
S_Test ==
    /\ Alive /\ monitor = "test"
    /\ monitor' = IF done THEN "exited" ELSE "sample"
    /\ UNCHANGED <<current, peak_threads, samples, peak_writers, late_peak_write>>
    /\ UNCHANGED <<config_vars, search_vars, main_vars, lines_vars, codec_vars>>

\* int current = get_thread_count();
S_Sample ==
    /\ Alive /\ monitor = "sample"
    /\ \E c \in ThreadSamples :
         /\ current' = c
         /\ samples' = samples \cup {c}
    /\ monitor' = "compare"
    /\ UNCHANGED <<peak_threads, peak_writers, late_peak_write>>
    /\ UNCHANGED <<config_vars, search_vars, main_vars, lines_vars, codec_vars>>

\* a comparison that lets every sample through to the store
S_CompareAlwaysStores ==
    /\ Alive /\ monitor = "compare"
    /\ monitor' = "store"
    /\ UNCHANGED <<current, peak_threads, samples, peak_writers, late_peak_write>>
    /\ UNCHANGED <<config_vars, search_vars, main_vars, lines_vars, codec_vars>>

\* if (current > peak_threads)
S_Compare ==
    /\ Alive /\ monitor = "compare"
    /\ monitor' = IF current > peak_threads THEN "store" ELSE "sleep"
    /\ UNCHANGED <<current, peak_threads, samples, peak_writers, late_peak_write>>
    /\ UNCHANGED <<config_vars, search_vars, main_vars, lines_vars, codec_vars>>

\* peak_threads = current;
S_Store ==
    /\ Alive /\ monitor = "store"
    /\ peak_threads' = current
    /\ peak_writers' = peak_writers \cup {"monitor"}
    /\ late_peak_write' = (late_peak_write \/ reported_peak # {})
    /\ monitor' = "sleep"
    /\ UNCHANGED <<current, samples>>
    /\ UNCHANGED <<config_vars, search_vars, main_vars, lines_vars, codec_vars>>

\* std::this_thread::sleep_for(std::chrono::milliseconds(100));
S_Sleep ==
    /\ Alive /\ monitor = "sleep"
    /\ monitor' = "test"
    /\ UNCHANGED <<current, peak_threads, samples, peak_writers, late_peak_write>>
    /\ UNCHANGED <<config_vars, search_vars, main_vars, lines_vars, codec_vars>>

\* ---- both threads

MainStep ==
    \/ ParseArgs \/ Validate \/ StartMonitor
    \/ LoadData \/ BuildAndSave
    \/ LoadQuery \/ LoadRanges \/ LoadGroundtruth \/ CheckCounts
    \/ LoadMapping \/ LoadIndex \/ SearchQuery \/ LoopExit
    \/ SetDone \/ Join \/ ComputeMetrics \/ Report \/ PeakMemoryFootprint

SamplerStep == S_Test \/ S_Sample \/ S_Compare \/ S_Store \/ S_Sleep

Next == MainStep \/ SamplerStep

Spec == Init /\ [][Next]_vars

\* both threads are scheduled for as long as they can run
FairSpec == Spec /\ WF_vars(MainStep) /\ WF_vars(SamplerStep)

\* ----------------------------------------------------------------- claims

SearchEvents == {"engine:range_filter", "engine:TopDown_nodeentries_search"}
AfterLoop == {"set_done", "join", "metrics", "report", "memory", "returned"}

\* C1: peak_threads is never lowered by any step, and the value the main
\* thread reports after the join is at least every sample taken (the -1 of a
\* missing "Threads:" line included) and at least the initial value 1.
C1_PeakMonotone ==
    /\ [][peak_threads' >= peak_threads]_vars
    /\ [](\A r \in reported_peak : r >= 1 /\ \A c \in samples : r >= c)

C1_Witness ==
    /\ reported_peak = {MaxThreads}
    /\ -1 \in samples /\ 1 \in samples
    /\ current < peak_threads

\* C2: in both programs the main thread reads peak_threads for the report
\* only after it has set the stop flag and the sampler has returned; the
\* sampler is the only writer of peak_threads, the stop flag is written once
\* and only by the main thread, and no write to peak_threads follows the read.
C2_ReadAfterJoin ==
    /\ reported_peak # {} => (done /\ monitor = "exited" /\ done_writes = <<"main">>)
    /\ peak_writers \subseteq {"monitor"}
    /\ Len(done_writes) <= 1 /\ \A k \in DOMAIN done_writes : done_writes[k] = "main"
    /\ ~late_peak_write

C2_Witness ==
    /\ program = "search" /\ pc = "returned"
    /\ reported_peak = {MaxThreads} /\ peak_writers = {"monitor"}

CountsLoaded == program = "search" /\ gt_opened # "unread" /\ fault # "length_error"

\* C3: in search mode, once ranges and groundtruth are loaded, a range count
\* or a groundtruth row count that differs from the query count stops the
\* run with the mismatch fault at the size checks, and no range_filter or
\* top-K search call has been made.
C3_MismatchFaultsBeforeSearch ==
    (CountsLoaded /\ (Len(query_ranges) # storage_query_nb
                        \/ Len(groundtruth) # storage_query_nb))
        => /\ pc \in {"check_counts", "terminated"}
           /\ pc = "terminated" => fault \in {RangesMismatch, GroundtruthMismatch}
           /\ search_log = <<>>
           /\ events \cap SearchEvents = {}

C3_Witness ==
    /\ pc = "terminated" /\ fault = RangesMismatch
    /\ storage_query_nb = MaxQueries
    /\ Len(query_ranges) = MaxQueries - 1
    /\ Len(groundtruth) = MaxQueries

ConfigInvalid ==
    IF program = "build"
    THEN \/ paths["data_vector"] = <<>> \/ paths["index_save"] = <<>>
         \/ M <= 0 \/ ef_construction <= 0 \/ threads <= 0
    ELSE \/ \E k \in PathKeysOf("search") : paths[k] = <<>>
         \/ M <= 0 \/ ef_search <= 0

ConfigFaults ==
    {"data path is empty", "index path is empty", "query path is empty",
     "query ranges file is empty", "groundtruth file is empty",
     "M should be a positive integer", "ef_construction should be a positive integer",
     "ef_search should be a positive integer", "threads should be a positive integer",
     "invalid_argument"}

\* C4: a run whose data or index path is empty or whose M, ef_construction
\* or threads (build), or whose required paths, M or ef_search (search), are
\* not valid never gets past the checks at the top of main: it ends with a
\* fatal fault before the sampler thread is started, before any file is read
\* and before any call into the index engine.
C4_ConfigFaultBeforeWork ==
    ConfigInvalid
        => /\ pc \in {"parse", "validate", "terminated"}
           /\ pc = "terminated" => fault \in ConfigFaults
           /\ monitor = "unstarted"
           /\ events = {}

C4_Witness ==
    /\ program = "build" /\ pc = "terminated"
    /\ fault = "threads should be a positive integer"
    /\ threads = 0

IsInteger(s) ==
    LET t == SkipSpace(s)
        u == IF t # <<>> /\ Head(t) \in {"+", "-"} THEN Tail(t) ELSE t
    IN  u # <<>> /\ \A k \in DOMAIN u : u[k] \in Digits

StrictPairLine(line) ==
    \E k \in DOMAIN line :
        /\ line[k] = "-"
        /\ \A j \in 1..(k - 1) : line[j] # "-"
        /\ IsInteger(SubSeq(line, 1, k - 1))
        /\ IsInteger(SubSeq(line, k + 1, Len(line)))

\* C5: read_two_ints_per_line accepts a file exactly when every line is two
\* integers separated by the first hyphen with nothing after the second, the
\* result then holding one pair per line in order; otherwise it raises a
\* fault naming the first offending line ("5-10-2" included).
C5_StrictPairs ==
    (range_out # PendingLines /\ range_file.open)
        => LET lines == range_file.lines
               bad == {k \in DOMAIN lines : ~StrictPairLine(lines[k])}
           IN  IF bad = {}
               THEN /\ range_out.fault = "none"
                    /\ Len(range_out.result) = Len(lines)
               ELSE /\ range_out.fault # "none"
                    /\ range_out.line \in bad
                    /\ \A k \in bad : range_out.line <= k

TruncatedRecord(rest) ==
    /\ rest.open
    /\ \/ rest.words = <<>> /\ rest.tail \in 1..3
       \/ /\ rest.words # <<>>
          /\ Head(rest.words) > 0
          /\ BytesLeft(Tail(rest.words), rest.tail) < 4 * Head(rest.words)

\* C6: a file of k complete records followed by a record whose dimension
\* field or element payload is cut short reads back, with read_fvecs and
\* with read_ivecs, as exactly those k records in order, never with a
\* partly filled vector for the cut record.
C6_TruncationKeepsCompleteRecords ==
    (vec_out.fvecs # PendingVecs /\ TruncatedRecord(vec_rest))
        => \A out \in {vec_out.fvecs, vec_out.ivecs} :
               out.fault = "none" /\ out.dataset = vec_recs

C6_Witness ==
    /\ vec_out.ivecs # PendingVecs
    /\ TruncatedRecord(vec_rest)
    /\ Len(vec_recs) = MaxRecords
    /\ Len(vec_rest.words) = 2
    /\ vec_out.ivecs.dataset = vec_recs

\* C7: read_fvecs and read_ivecs raise no fault on any content of an
\* openable file, whatever its dimension fields hold.
C7_NoFaultOnAnyContent ==
    \A out \in {vec_out.fvecs, vec_out.ivecs} : out.fault \in {"pending", "none"}

\* C8 as stated: a groundtruth file that cannot be opened loads as an empty
\* list without a fault, and the run then fails at the groundtruth-count
\* check before any query executes.
C8_FailsAtGroundtruthCheck ==
    gt_opened = "failed"
        => /\ groundtruth = <<>>
           /\ search_log = <<>>
           /\ pc \in {"check_counts", "terminated"}
           /\ pc = "terminated" => fault = GroundtruthMismatch

\* C8 amended: a groundtruth file that cannot be opened loads as an empty
\* list without a fault and no query ever executes in that run; when at
\* least one query was loaded the run ends at the size checks, with the
\* groundtruth mismatch if the range count matches and with the range
\* mismatch otherwise; with no query and no range loaded the groundtruth
\* check passes.
C8_NoQueryAfterUnopenableGroundtruth ==
    gt_opened = "failed"
        => /\ groundtruth = <<>>
           /\ search_log = <<>>
           /\ events \cap SearchEvents = {}
           /\ storage_query_nb > 0
                 => /\ pc \in {"check_counts", "terminated"}
                    /\ pc = "terminated"
                          => fault = IF Len(query_ranges) = storage_query_nb
                                     THEN GroundtruthMismatch
                                     ELSE RangesMismatch
           /\ (storage_query_nb = 0 /\ query_ranges = <<>>) => fault # GroundtruthMismatch

C8_Witness ==
    /\ gt_opened = "failed" /\ pc = "terminated"
    /\ fault = GroundtruthMismatch
    /\ storage_query_nb > 0

QueryHits(q) ==
    Cardinality({j \in DOMAIN groundtruth[q] :
                    \E sorted_id \in search_log[q].res :
                        sorted_to_original[sorted_id] = groundtruth[q][j]})

RECURSIVE HitsUpTo(_)
HitsUpTo(n) == IF n = 0 THEN 0 ELSE HitsUpTo(n - 1) + QueryHits(n)

\* C9: queries are searched one at a time in input order; after the loop
\* total_queries_processed is the number of loaded queries and
\* total_true_positives is the sum over the queries of the groundtruth
\* entries found in the query's result set translated through the ID
\* mapping; recall is that sum over (processed * 10).
C9_RecallIsPooledTruePositives ==
    program = "search"
        => /\ \A k \in DOMAIN search_log : search_log[k].query = k - 1
           /\ pc = "loop" => /\ Len(search_log) = total_queries_processed
                             /\ total_true_positives = HitsUpTo(Len(search_log))
           /\ pc \in AfterLoop
                 => /\ Len(search_log) = storage_query_nb
                    /\ total_queries_processed = storage_query_nb
                    /\ total_true_positives = HitsUpTo(storage_query_nb)
           /\ \A r \in recall : r = <<HitsUpTo(storage_query_nb), storage_query_nb * 10>>

C9_Witness ==
    /\ pc = "returned"
    /\ recall = {<<3, MaxQueries * 10>>}
    /\ sorted_to_original[0] = 2

\* C10: under fair scheduling, once the main thread has set the stop flag
\* the sampler sees it and returns, the join returns and the report is
\* printed; a running sampler can always take its next step, and after it
\* has seen the flag set it takes no further sample.
C10_StopLeadsToReport ==
    /\ done ~> (reported_peak # {})
    /\ [][monitor = "exited" => (monitor' = "exited" /\ samples' = samples)]_vars
    /\ []((Alive /\ monitor \in {"test", "sample", "compare", "store", "sleep"})
             => ENABLED SamplerStep)

C10_Witness ==
    /\ pc = "returned" /\ program = "search"
    /\ monitor = "exited" /\ samples # {}
    /\ done

====
